---- MODULE Spec2Model ----
(***************************************************************************)
(* LeanFeastAI recipe generation pipeline.                                 *)
(*                                                                         *)
(*   backend/services/similarity_service.py  SimilarityService             *)
(*   backend/main.py                         generate_recipe (orchestrator,*)
(*                                           constraint loop, image job)   *)
(*   backend/services/recipe_service.py      RecipeService.generate_recipe *)
(*   backend/services/nutrition_service.py   get_recipe_nutrition          *)
(*                                                                         *)
(* Conventions.  Similarity scores are hundredths (0.75 is 75).  Calories  *)
(* and protein are whole numbers of kcal and grams.  A per-serving protein *)
(* amount total / serving_size is kept as the pair (numerator,             *)
(* denominator) and compared by cross-multiplication, so the float         *)
(* division of the source is exact here.  Python None is a record with a   *)
(* FALSE presence flag, or the id 0 for a recipe id.                       *)
(***************************************************************************)
EXTENDS Integers, Sequences, FiniteSets, TLC

\* ------------------------------------------------------------------ bounds
MaxMatches == 3
MaxTopK == 2
MaxServingSize == 2

\* -------------------------------------------------------- program constants
similarity_threshold == 75
FetchMin == 20
FetchMax == 100
OrchestratorTopK == 5
max_constraint_attempts == 3
protein_tolerance == 10
calorie_tolerance == 100
max_retries == 2               \* RecipeService.generate_recipe
parse_retry_wait == 1
backoff_step == 2
nutrition_max_retries == 2     \* NutritionService.get_recipe_nutrition
rate_limit_step == 2
retry_wait == 1

VARIABLES
    \* environment of one find_similar_recipes call
    index_ok,        \* self.index is set (Pinecone initialised)
    user_present,    \* user_id and db_service are given
    profile_ok,      \* db_service.get_profile does not raise
    sim_fault,       \* "none", "embed", "query1" (first query attempt raises),
                     \* "query2" (both attempts raise), "no_response"
    matches,         \* what index.query returns, ranked by score
    user_saved,      \* profile["saved_recipes"]
    user_liked,      \* profile["liked_recipes"]
    top_k,
    \* the request (RecipeCreateRequest)
    calorie_range,              \* [kind, lo, hi]: "none", "text" (no regex match) or "range"
    protein_target_per_serving, \* NoneNum when not supplied
    \* generate_recipe, the orchestrator
    pc,
    similar_recipes,
    target_calories,            \* NoneNum until parsed from a valid range
    min_calories,
    recipe_output,              \* the current draft: [serial, serving_size, steps]
    nutrition_data,             \* [available, calories, protein, of_draft]
    constraint_attempts,
    previous_attempt_issues,
    current_attempt_issues,
    constraints_met,
    loop_exit,                  \* which break left the constraint loop
    draft_calls,                \* calls of recipe_service.generate_recipe
    nutrition_calls,            \* calls of nutrition_service.get_recipe_nutrition
    nutrition_log,              \* per nutrition call: was a profile returned
    saved_recipe,               \* what create_recipe returned
    response,                   \* what the handler returned to the caller
    \* the persisted row and the detached image job
    db_image_url,
    job_pc,
    job_image,
    \* inside one RecipeService.generate_recipe call
    attempt,         \* loop variable of lines 350-397
    llm_calls,       \* calls of self.llm.invoke
    prod_sleeps,     \* the time.sleep arguments, in order
    prod_log,        \* per invocation: the clause it landed in
    prod_error,      \* what the call raised, "none" if nothing
    \* inside one NutritionService.get_recipe_nutrition call
    nut_attempt,     \* loop variable of lines 165-225
    http_calls,      \* calls of self.client.post
    nut_sleeps,
    nut_log,         \* per request: what came back
    eval_return,     \* what the call handed back: "dict", "None", "raised"
    retry_feedback,  \* the feedback section of the prompt of the latest draft call
    log_outcomes     \* how the three writes after create_recipe went

simEnv == <<index_ok, user_present, profile_ok, sim_fault, matches,
            user_saved, user_liked, top_k>>
request == <<calorie_range, protein_target_per_serving>>
loopVars == <<target_calories, min_calories, recipe_output, nutrition_data,
              constraint_attempts, previous_attempt_issues, current_attempt_issues,
              constraints_met, loop_exit, draft_calls, nutrition_calls, nutrition_log>>
tailVars == <<saved_recipe, response, db_image_url, job_pc, job_image>>
producerVars == <<attempt, llm_calls, prod_sleeps, prod_log, prod_error>>
evaluatorVars == <<nut_attempt, http_calls, nut_sleeps, nut_log, eval_return>>
vars == <<simEnv, request, pc, similar_recipes, loopVars, tailVars,
          producerVars, evaluatorVars, retry_feedback, log_outcomes>>

Min(a, b) == IF a < b THEN a ELSE b
Max(a, b) == IF a > b THEN a ELSE b
Abs(a) == IF a < 0 THEN -a ELSE a

\* ------------------------------------------------------- Similarity Ranker
RecipeIds == {1, 2}
NoId == 0
Scores == {74, 75, 90}
Match == [id : RecipeIds \cup {NoId}, score : Scores]

RECURSIVE SeqsUpTo(_, _)
SeqsUpTo(S, n) ==
    IF n = 0 THEN {<<>>}
    ELSE LET shorter == SeqsUpTo(S, n - 1)
         IN shorter \cup {Append(s, x) : s \in {t \in shorter : Len(t) = n - 1}, x \in S}

\* index.query returns its matches ranked, best score first
Ranked(s) == \A i \in 1..(Len(s) - 1) : s[i].score >= s[i + 1].score

FetchK(k) == Min(Max(k * 4, FetchMin), FetchMax)

QueryIndex(ms, k) == SubSeq(ms, 1, Min(Len(ms), FetchK(k)))

\* the 0.5 of the comment of line 139 instead of the 0.75 of line 24
Mut_PassesThreshold(score) == ~(score < 50)

PassesThreshold(score) == ~(score < similarity_threshold)

Candidate(m, saved, liked) ==
    [id |-> m.id, similarity_score |-> m.score,
     is_user_saved |-> m.id \in saved, is_user_liked |-> m.id \in liked]

\* a saved or liked recipe let through below the threshold
RECURSIVE Mut_FilterMatches(_, _, _)
Mut_FilterMatches(ms, saved, liked) ==
    IF ms = <<>> THEN <<>>
    ELSE LET m == Head(ms)
             rest == Mut_FilterMatches(Tail(ms), saved, liked)
         IN IF ~PassesThreshold(m.score) /\ m.id \notin (saved \cup liked) THEN rest
            ELSE IF m.id = NoId THEN rest
            ELSE <<Candidate(m, saved, liked)>> \o rest

RECURSIVE FilterMatches(_, _, _)
FilterMatches(ms, saved, liked) ==
    IF ms = <<>> THEN <<>>
    ELSE LET m == Head(ms)
             rest == FilterMatches(Tail(ms), saved, liked)
         IN IF ~PassesThreshold(m.score) THEN rest
            ELSE IF m.id = NoId THEN rest
            ELSE <<Candidate(m, saved, liked)>> \o rest

AffinityRank(r) == IF r.is_user_saved THEN 0 ELSE IF r.is_user_liked THEN 1 ELSE 2

\* the sort key of results.sort: a tuple when the user has affinities,
\* the score alone otherwise; tuples compare lexicographically
KeyLess(a, b, prioritize) ==
    IF prioritize
    THEN \/ AffinityRank(a) < AffinityRank(b)
         \/ /\ AffinityRank(a) = AffinityRank(b)
            /\ a.similarity_score < b.similarity_score
    ELSE a.similarity_score < b.similarity_score

\* list.sort(reverse=True) is stable: x goes before the first element whose
\* key is smaller than its own, after every element with an equal key
RECURSIVE InsertReverse(_, _, _)
InsertReverse(sorted, x, prioritize) ==
    IF sorted = <<>> THEN <<x>>
    ELSE IF KeyLess(Head(sorted), x, prioritize) THEN <<x>> \o sorted
    ELSE <<Head(sorted)>> \o InsertReverse(Tail(sorted), x, prioritize)

RECURSIVE SortReverse(_, _)
SortReverse(s, prioritize) ==
    IF s = <<>> THEN <<>>
    ELSE InsertReverse(SortReverse(SubSeq(s, 1, Len(s) - 1), prioritize),
                       s[Len(s)], prioritize)

\* the slice of line 190 left out
Mut_TopResults(results, k) == results

TopResults(results, k) == SubSeq(results, 1, Min(Len(results), k))

Returned(rs) == [raised |-> FALSE, results |-> rs]
Raised == [raised |-> TRUE, results |-> <<>>]

\* the except of line 201 re-raising instead of returning []
Mut_OuterExcept == Raised

\* what the outermost except of find_similar_recipes does with an exception
OuterExcept == Returned(<<>>)

\* the profile lookup of lines 95-103: its own except leaves both sets empty
ProfileSets ==
    IF user_present /\ profile_ok
    THEN [saved |-> user_saved, liked |-> user_liked]
    ELSE [saved |-> {}, liked |-> {}]

\* the body of find_similar_recipes from line 105 on, with the saved and
\* liked sets the profile lookup left
FindSimilarWith(sets) ==
    IF ~index_ok THEN Returned(<<>>)
    ELSE IF sim_fault = "embed" THEN OuterExcept
    ELSE IF sim_fault = "query2" THEN OuterExcept
    ELSE IF sim_fault = "no_response" THEN Returned(<<>>)
    ELSE LET ms == QueryIndex(matches, top_k)
         IN IF ms = <<>> THEN Returned(<<>>)
            ELSE LET results == FilterMatches(ms, sets.saved, sets.liked)
                     prioritize == user_present /\ (sets.saved # {} \/ sets.liked # {})
                 IN Returned(TopResults(SortReverse(results, prioritize), top_k))

find_similar_recipes == FindSimilarWith(ProfileSets)

SimFaults == {"none", "embed", "query1", "query2", "no_response"}

SimEnvOK ==
    /\ index_ok \in BOOLEAN
    /\ user_present \in BOOLEAN
    /\ profile_ok \in BOOLEAN
    /\ sim_fault \in SimFaults
    /\ user_saved \in SUBSET {1}
    /\ user_liked \in SUBSET RecipeIds
    /\ ~user_present => (profile_ok /\ user_saved = {} /\ user_liked = {})

\* ----------------------------------------------------------- orchestrator
NoneNum == -1

Requests ==
    {[kind |-> "none", lo |-> 0, hi |-> 0],
     [kind |-> "text", lo |-> 0, hi |-> 0],
     [kind |-> "range", lo |-> 1800, hi |-> 2200],
     [kind |-> "range", lo |-> 2200, hi |-> 1800],
     [kind |-> "range", lo |-> 2000, hi |-> 2000]}
ProteinTargets == {NoneNum, 30}

\* what the external services can answer
ServingSizes == 0..MaxServingSize
CalorieValues == {1650, 1699, 1700, 2100, 2101, 2299, 2300, 2350}
ProteinValues == {19, 40, 41, 50, 81}
NutritionValues ==
    {[calories |-> c, protein |-> 50] : c \in CalorieValues}
    \cup {[calories |-> 2101, protein |-> p] : p \in ProteinValues}
    \cup {[calories |-> 1650, protein |-> 19]}

\* RecipeStep: step_number is any int, step_type one of three literals
StepTypes == {"active", "passive", "wait"}
Step(n, t) == [step_number |-> n, step_type |-> t]

\* what the generative model can answer: the serving size and the steps
GoodSteps == <<Step(1, "active"), Step(2, "wait")>>
LLMOutputs ==
    {[serving_size |-> ss, steps |-> GoodSteps] : ss \in ServingSizes}
    \cup {[serving_size |-> 1, steps |-> <<Step(2, "active"), Step(1, "passive")>>],
          [serving_size |-> 1, steps |-> <<Step(1, "active"), Step(2, "mixed")>>]}

\* output_parser.parse against RecipeOutput: only the step_type literal is checked
ParseOk(raw) == \A i \in DOMAIN raw.steps : raw.steps[i].step_type \in StepTypes

NoDraft == [serial |-> 0, serving_size |-> 1, steps |-> <<>>]
NoNutrition == [available |-> FALSE, calories |-> 0, protein |-> 0, of_draft |-> 0]
NoRecipe == [id |-> 0, draft |-> NoDraft, nutrition |-> NoNutrition, image_url |-> "None"]
NoResponse == [status |-> "pending", recipe_id |-> 0, recipe |-> NoRecipe,
               image_base64 |-> "None"]
ErrorResponse == [status |-> "error500", recipe_id |-> 0, recipe |-> NoRecipe,
                  image_base64 |-> "None"]

\* the test of line 706 left out: any two numbers make a constraint
Mut_ParseCalorieRange(cr) ==
    IF cr.kind = "range"
    THEN [target |-> cr.hi, min |-> cr.lo]
    ELSE [target |-> NoneNum, min |-> NoneNum]

\* Step 2.5: the regex of line 701 and the max_cal > min_cal test of line 706
ParseCalorieRange(cr) ==
    IF cr.kind = "range" /\ cr.hi > cr.lo
    THEN [target |-> cr.hi, min |-> cr.lo]
    ELSE [target |-> NoneNum, min |-> NoneNum]

HasCalorieConstraint(tc) == tc # NoneNum
\* the protein target never taken as a constraint
Mut_HasProteinConstraint_Never(pt) == FALSE
\* testing protein_tolerance (always set) instead of the target
Mut_HasProteinConstraint(pt) == TRUE
HasProteinConstraint(pt) == pt # NoneNum
SkipValidation(tc, pt) == ~HasCalorieConstraint(tc) /\ ~HasProteinConstraint(pt)

Issue(kind, basis, actual, amount, den) ==
    [kind |-> kind, basis |-> basis, actual |-> actual, amount |-> amount, den |-> den]

\* lines 844-848 dropped: unavailable nutrition raises no issue
Mut_CalorieIssues_IgnoreUnavailable(nd, minc, tc) ==
    IF ~nd.available THEN <<>>
    ELSE IF nd.calories < minc - calorie_tolerance
    THEN <<Issue("calories_too_low", "range", nd.calories, minc - nd.calories, 1)>>
    ELSE LET diff == Abs(nd.calories - tc)
         IN IF diff >= calorie_tolerance
            THEN IF nd.calories > tc
                 THEN <<Issue("calories_too_high", "target", nd.calories, nd.calories - tc, 1)>>
                 ELSE <<Issue("calories_too_low", "target", nd.calories, tc - nd.calories, 1)>>
            ELSE <<>>

\* the comparison of line 861 turned round
Mut_CalorieIssues_Swapped(nd, minc, tc) ==
    IF ~nd.available
    THEN <<Issue("nutrition_failed", "range", 0, 0, 1)>>
    ELSE IF nd.calories < minc - calorie_tolerance
    THEN <<Issue("calories_too_low", "range", nd.calories, minc - nd.calories, 1)>>
    ELSE LET diff == Abs(nd.calories - tc)
         IN IF diff >= calorie_tolerance
            THEN IF nd.calories < tc
                 THEN <<Issue("calories_too_high", "target", nd.calories, nd.calories - tc, 1)>>
                 ELSE <<Issue("calories_too_low", "target", nd.calories, tc - nd.calories, 1)>>
            ELSE <<>>

\* a check against the range: anything from min to max passes
Mut_CalorieIssues_InRange(nd, minc, tc) ==
    IF ~nd.available
    THEN <<Issue("nutrition_failed", "range", 0, 0, 1)>>
    ELSE IF nd.calories < minc
    THEN <<Issue("calories_too_low", "range", nd.calories, minc - nd.calories, 1)>>
    ELSE IF nd.calories > tc
    THEN <<Issue("calories_too_high", "target", nd.calories, nd.calories - tc, 1)>>
    ELSE <<>>

\* > for the >= of line 859
Mut_CalorieIssues_Strict(nd, minc, tc) ==
    IF ~nd.available
    THEN <<Issue("nutrition_failed", "range", 0, 0, 1)>>
    ELSE IF nd.calories < minc - calorie_tolerance
    THEN <<Issue("calories_too_low", "range", nd.calories, minc - nd.calories, 1)>>
    ELSE LET diff == Abs(nd.calories - tc)
         IN IF diff > calorie_tolerance
            THEN IF nd.calories > tc
                 THEN <<Issue("calories_too_high", "target", nd.calories, nd.calories - tc, 1)>>
                 ELSE <<Issue("calories_too_low", "target", nd.calories, tc - nd.calories, 1)>>
            ELSE <<>>

\* lines 843-871
CalorieIssues(nd, minc, tc) ==
    IF ~nd.available
    THEN <<Issue("nutrition_failed", "range", 0, 0, 1)>>
    ELSE IF nd.calories < minc - calorie_tolerance
    THEN <<Issue("calories_too_low", "range", nd.calories, minc - nd.calories, 1)>>
    ELSE LET diff == Abs(nd.calories - tc)
         IN IF diff >= calorie_tolerance
            THEN IF nd.calories > tc
                 THEN <<Issue("calories_too_high", "target", nd.calories, nd.calories - tc, 1)>>
                 ELSE <<Issue("calories_too_low", "target", nd.calories, tc - nd.calories, 1)>>
            ELSE <<>>

\* >= for the > of line 878
Mut_ProteinFails(protein, ss, pt) == Abs(protein - pt * ss) >= protein_tolerance * ss

\* lines 875-878: protein_diff > protein_tolerance, with
\* protein_diff = |protein / serving_size - target|, for serving_size > 0
ProteinFails(protein, ss, pt) == Abs(protein - pt * ss) > protein_tolerance * ss

\* lines 879-888
ProteinIssues(protein, ss, pt) ==
    IF ~ProteinFails(protein, ss, pt) THEN <<>>
    ELSE IF protein < (pt - protein_tolerance) * ss
    THEN <<Issue("protein_too_low", "target", protein, pt * ss - protein, ss)>>
    ELSE IF protein > (pt + protein_tolerance) * ss
    THEN <<Issue("protein_too_high", "target", protein, protein - pt * ss, ss)>>
    ELSE <<>>

\* the "- 1" of line 913 left out
\* giving up one attempt early
Mut_HasRetriesLeft_Early(attempts) == attempts < max_constraint_attempts - 2

Mut_HasRetriesLeft(attempts) == attempts < max_constraint_attempts
HasRetriesLeft(attempts) == attempts < max_constraint_attempts - 1

\* the outer except swallowing the exception: the request ends, no response
Mut_Failed ==
    /\ pc' = "failed"
    /\ response' = NoResponse

Failed ==
    /\ pc' = "failed"
    /\ response' = ErrorResponse

\* Step 0, line 644: get_profile raises on a database error
GetProfile ==
    /\ pc = "start"
    /\ \E ok \in BOOLEAN :
          IF ok THEN pc' = "similarity" /\ UNCHANGED response
          ELSE Failed
    /\ UNCHANGED <<log_outcomes, retry_feedback, producerVars, evaluatorVars,
                   simEnv, request, similar_recipes, loopVars, saved_recipe,
                   db_image_url, job_pc, job_image>>

\* main.py line 666: the call is inside the handler's outer try
FindSimilar ==
    /\ pc = "similarity"
    /\ LET r == find_similar_recipes
       IN IF r.raised
          THEN /\ Failed
               /\ UNCHANGED similar_recipes
          ELSE /\ pc' = "generate"
               /\ similar_recipes' = r.results
               /\ UNCHANGED response
    /\ UNCHANGED <<log_outcomes, retry_feedback, producerVars, evaluatorVars,
                   simEnv, request, loopVars, saved_recipe, db_image_url,
                   job_pc, job_image>>

\* the retry_feedback argument: None at line 741, the issue list at line 927
NoFeedback == [given |-> FALSE, issues |-> <<>>]

\* regenerating without the issues
Mut_RetryFeedback(issues) == NoFeedback

RetryFeedback(issues) == [given |-> TRUE, issues |-> issues]

\* recipe_service.py lines 281-288: the section put in the prompt, one line
\* per issue in the order given, nothing when no feedback or an empty list
RetryFeedbackSection(fb) ==
    IF fb.given /\ Len(fb.issues) > 0
    THEN [present |-> TRUE, lines |-> [i \in DOMAIN fb.issues |-> <<"- ", fb.issues[i]>>]]
    ELSE [present |-> FALSE, lines |-> <<>>]

\* Step 2.5 and Phase 1 (lines 697-756): parse the range, first draft
GenerateInitial ==
    /\ pc = "generate"
    /\ LET parsed == ParseCalorieRange(calorie_range)
       IN /\ target_calories' = parsed.target
          /\ min_calories' = parsed.min
    /\ retry_feedback' = (RetryFeedbackSection(NoFeedback))
    /\ draft_calls' = draft_calls + 1
    /\ \/ \E raw \in LLMOutputs :
            IF ParseOk(raw)
            THEN /\ recipe_output' = [serial |-> draft_calls + 1,
                                      serving_size |-> raw.serving_size,
                                      steps |-> raw.steps]
                 /\ pc' = "nutrition"
                 /\ UNCHANGED response
            ELSE /\ Failed
                 /\ UNCHANGED recipe_output
       \/ /\ Failed
          /\ UNCHANGED recipe_output
    /\ UNCHANGED <<log_outcomes, producerVars, evaluatorVars, simEnv, request,
                   similar_recipes, nutrition_data, constraint_attempts,
                   previous_attempt_issues, current_attempt_issues,
                   constraints_met, loop_exit, nutrition_calls, nutrition_log,
                   saved_recipe, db_image_url, job_pc, job_image>>

\* the nutrition call always given the first draft
Mut_NutritionResult_Stale(draft) ==
    {NoNutrition} \cup
    {[available |-> TRUE, calories |-> n.calories, protein |-> n.protein,
      of_draft |-> 1] : n \in NutritionValues}

\* get_recipe_nutrition(...) or {}, and {} when the call raises
NutritionResult(draft) ==
    {NoNutrition} \cup
    {[available |-> TRUE, calories |-> n.calories, protein |-> n.protein,
      of_draft |-> draft.serial] : n \in NutritionValues}

\* lines 776-811: nutrition of the first draft, then the loop is entered
NutritionInitial ==
    /\ pc = "nutrition"
    /\ \E nd \in NutritionResult(recipe_output) :
          /\ nutrition_data' = nd
          /\ nutrition_log' = Append(nutrition_log, nd.available)
    /\ nutrition_calls' = nutrition_calls + 1
    /\ constraint_attempts' = 0
    /\ previous_attempt_issues' = <<>>
    /\ pc' = "validate"
    /\ UNCHANGED <<log_outcomes, retry_feedback, producerVars, evaluatorVars,
                   simEnv, request, similar_recipes, target_calories,
                   min_calories, recipe_output, current_attempt_issues,
                   constraints_met, loop_exit, draft_calls, tailVars>>

\* one pass of the loop body, lines 813-922 and 968-974
Validate ==
    /\ pc = "validate"
    /\ IF ~(constraint_attempts < max_constraint_attempts)
       THEN /\ pc' = "persist"
            /\ loop_exit' = "bound"
            /\ UNCHANGED <<current_attempt_issues, constraints_met,
                           previous_attempt_issues, constraint_attempts, response>>
       ELSE IF SkipValidation(target_calories, protein_target_per_serving)
       THEN /\ pc' = "persist"
            /\ loop_exit' = "no_constraints"
            /\ UNCHANGED <<current_attempt_issues, constraints_met,
                           previous_attempt_issues, constraint_attempts, response>>
       ELSE LET hasCal == HasCalorieConstraint(target_calories)
                checkProtein == HasProteinConstraint(protein_target_per_serving)
                                /\ nutrition_data.available
                ss == recipe_output.serving_size
                cal == IF hasCal
                       THEN CalorieIssues(nutrition_data, min_calories, target_calories)
                       ELSE <<>>
            IN IF checkProtein /\ ss = 0
               THEN \* ZeroDivisionError at line 875, caught at line 1151
                    /\ Failed
                    /\ UNCHANGED <<current_attempt_issues, constraints_met,
                                   previous_attempt_issues, constraint_attempts,
                                   loop_exit>>
               ELSE LET protFails == checkProtein /\
                                     ProteinFails(nutrition_data.protein, ss,
                                                  protein_target_per_serving)
                        prot == IF checkProtein
                                THEN ProteinIssues(nutrition_data.protein, ss,
                                                   protein_target_per_serving)
                                ELSE <<>>
                        met == cal = <<>> /\ ~protFails
                    IN /\ current_attempt_issues' = cal \o prot
                       /\ constraints_met' = met
                       /\ UNCHANGED response
                       /\ IF met
                          THEN /\ pc' = "persist"
                               /\ loop_exit' = "satisfied"
                               /\ UNCHANGED <<previous_attempt_issues, constraint_attempts>>
                          ELSE IF HasRetriesLeft(constraint_attempts)
                          THEN /\ previous_attempt_issues' = cal \o prot
                               /\ constraint_attempts' = constraint_attempts + 1
                               /\ pc' = "regenerate"
                               /\ UNCHANGED loop_exit
                          ELSE /\ pc' = "persist"
                               /\ loop_exit' = "exhausted"
                               /\ UNCHANGED <<previous_attempt_issues, constraint_attempts>>
    /\ UNCHANGED <<log_outcomes, retry_feedback, producerVars, evaluatorVars,
                   simEnv, request, similar_recipes, target_calories,
                   min_calories, recipe_output, nutrition_data, draft_calls,
                   nutrition_calls, nutrition_log, saved_recipe, db_image_url,
                   job_pc, job_image>>

\* a regeneration whose raise reaches the handler's outer except
Mut_Regenerate ==
    /\ pc = "regenerate"
    /\ retry_feedback' = (RetryFeedbackSection(RetryFeedback(previous_attempt_issues)))
    /\ draft_calls' = draft_calls + 1
    /\ \/ \E raw \in LLMOutputs :
            /\ ParseOk(raw)
            /\ recipe_output' = [serial |-> draft_calls + 1,
                                 serving_size |-> raw.serving_size,
                                 steps |-> raw.steps]
            /\ pc' = "renutrition"
            /\ UNCHANGED <<loop_exit, response>>
       \/ /\ Failed
          /\ loop_exit' = "regen_failed"
          /\ UNCHANGED recipe_output
    /\ UNCHANGED <<log_outcomes, producerVars, evaluatorVars, simEnv, request,
                   similar_recipes, target_calories, min_calories,
                   nutrition_data, constraint_attempts,
                   previous_attempt_issues, current_attempt_issues,
                   constraints_met, nutrition_calls, nutrition_log,
                   saved_recipe, db_image_url, job_pc, job_image>>

\* lines 924-930 and 960-967: regeneration with feedback; a raise breaks the loop
Regenerate ==
    /\ pc = "regenerate"
    /\ retry_feedback' = (RetryFeedbackSection(RetryFeedback(previous_attempt_issues)))
    /\ draft_calls' = draft_calls + 1
    /\ \/ \E raw \in LLMOutputs :
            IF ParseOk(raw)
            THEN /\ recipe_output' = [serial |-> draft_calls + 1,
                                      serving_size |-> raw.serving_size,
                                      steps |-> raw.steps]
                 /\ pc' = "renutrition"
                 /\ UNCHANGED loop_exit
            ELSE /\ pc' = "persist"
                 /\ loop_exit' = "regen_failed"
                 /\ UNCHANGED recipe_output
       \/ /\ pc' = "persist"
          /\ loop_exit' = "regen_failed"
          /\ UNCHANGED recipe_output
    /\ UNCHANGED <<log_outcomes, producerVars, evaluatorVars, simEnv, request,
                   similar_recipes, target_calories, min_calories,
                   nutrition_data, constraint_attempts,
                   previous_attempt_issues, current_attempt_issues,
                   constraints_met, nutrition_calls, nutrition_log, tailVars>>

\* lines 946-959: nutrition of the regenerated draft, then continue
NutritionRetry ==
    /\ pc = "renutrition"
    /\ \E nd \in NutritionResult(recipe_output) :
          /\ nutrition_data' = nd
          /\ nutrition_log' = Append(nutrition_log, nd.available)
    /\ nutrition_calls' = nutrition_calls + 1
    /\ pc' = "validate"
    /\ UNCHANGED <<log_outcomes, retry_feedback, producerVars, evaluatorVars,
                   simEnv, request, similar_recipes, target_calories,
                   min_calories, recipe_output, constraint_attempts,
                   previous_attempt_issues, current_attempt_issues,
                   constraints_met, loop_exit, draft_calls, tailVars>>

\* a create_recipe whose failure is swallowed, the run going on
Mut_Persist ==
    /\ pc = "persist"
    /\ \/ /\ saved_recipe' = [id |-> 1, draft |-> recipe_output,
                             nutrition |-> nutrition_data, image_url |-> "None"]
          /\ db_image_url' = "None"
          /\ pc' = "logging"
          /\ UNCHANGED response
       \/ /\ pc' = "logging"
          /\ UNCHANGED <<saved_recipe, db_image_url, response>>
    /\ UNCHANGED <<log_outcomes, retry_feedback, producerVars, evaluatorVars,
                   simEnv, request, similar_recipes, loopVars, job_pc,
                   job_image>>

\* lines 993-1050: create_recipe with image_url None; it raises on failure
Persist ==
    /\ pc = "persist"
    /\ \/ /\ saved_recipe' = [id |-> 1, draft |-> recipe_output,
                             nutrition |-> nutrition_data, image_url |-> "None"]
          /\ db_image_url' = "None"
          /\ pc' = "logging"
          /\ UNCHANGED response
       \/ /\ Failed
          /\ UNCHANGED <<saved_recipe, db_image_url>>
    /\ UNCHANGED <<log_outcomes, retry_feedback, producerVars, evaluatorVars,
                   simEnv, request, similar_recipes, loopVars, job_pc,
                   job_image>>

\* how a database write can go
WriteOutcomes == {"ok", "error"}
NoLogs == [analytics |-> "none", activity |-> "none", action |-> "none"]

\* database_service.py 504-559 and 561-584: the except of each only prints
create_recipe_analytics(outcome) == "returned"
log_recipe_creation(outcome) == "returned"

\* database_service.py 823-869: a failed insert is raised again
log_user_recipe_action(outcome) == IF outcome = "error" THEN "raised" ELSE "returned"

\* the call of line 1062 without its try
Mut_TryLogUserAction(outcome) == log_user_recipe_action(outcome)

\* main.py 1061-1069: the except only prints
TryLogUserAction(outcome) ==
    IF log_user_recipe_action(outcome) = "raised" THEN "caught" ELSE "returned"

\* lines 1052-1069: analytics row, activity log, user-action log; anything
\* one of them raised here would reach the outer except
PostPersist ==
    /\ pc = "logging"
    /\ \E a \in WriteOutcomes, l \in WriteOutcomes, u \in WriteOutcomes :
          /\ log_outcomes' = [analytics |-> a, activity |-> l, action |-> u]
          /\ IF \/ create_recipe_analytics(a) = "raised"
                \/ log_recipe_creation(l) = "raised"
                \/ TryLogUserAction(u) = "raised"
             THEN Failed
             ELSE pc' = "schedule" /\ UNCHANGED response
    /\ UNCHANGED <<retry_feedback, producerVars, evaluatorVars, simEnv,
                   request, similar_recipes, loopVars, saved_recipe,
                   db_image_url, job_pc, job_image>>

\* lines 1131-1149
SuccessResponse(saved, image_base64) ==
    [status |-> "success", recipe_id |-> saved.id, recipe |-> saved,
     image_base64 |-> image_base64]

\* lines 1128-1149: create_task, then return without awaiting the task
ScheduleAndReturn ==
    /\ pc = "schedule"
    /\ job_pc' = "scheduled"
    /\ response' = SuccessResponse(saved_recipe, "None")
    /\ pc' = "responded"
    /\ UNCHANGED <<log_outcomes, retry_feedback, producerVars, evaluatorVars,
                   simEnv, request, similar_recipes, loopVars, saved_recipe,
                   db_image_url, job_image>>

\* the test of line 1087 left out: the upload runs without an image
Mut_JobGenerate_NoImageUploads ==
    /\ job_pc = "scheduled"
    /\ \/ job_image' = "image" /\ job_pc' = "upload"
       \/ job_image' = "None" /\ job_pc' = "upload"
       \/ job_image' = "None" /\ job_pc' = "generate_raised"
    /\ UNCHANGED <<log_outcomes, retry_feedback, producerVars, evaluatorVars,
                   simEnv, request, pc, similar_recipes, loopVars,
                   saved_recipe, response, db_image_url>>

\* a failed image generation marking the request as failed
Mut_JobGenerate ==
    /\ job_pc = "scheduled"
    /\ \/ job_image' = "image" /\ job_pc' = "upload" /\ UNCHANGED response
       \/ job_image' = "None" /\ job_pc' = "no_image" /\ response' = ErrorResponse
       \/ job_image' = "None" /\ job_pc' = "generate_raised" /\ UNCHANGED response
    /\ UNCHANGED <<log_outcomes, retry_feedback, producerVars, evaluatorVars,
                   simEnv, request, pc, similar_recipes, loopVars,
                   saved_recipe, db_image_url>>

\* ------------------------------------------- generate_image_background
\* lines 1079-1087 and 1120-1125: the adapter returns an image or None; an
\* exception of the thread call is caught by the job's outer except
JobGenerate ==
    /\ job_pc = "scheduled"
    /\ \/ job_image' = "image" /\ job_pc' = "upload"
       \/ job_image' = "None" /\ job_pc' = "no_image"
       \/ job_image' = "None" /\ job_pc' = "generate_raised"
    /\ UNCHANGED <<log_outcomes, retry_feedback, producerVars, evaluatorVars,
                   simEnv, request, pc, similar_recipes, loopVars,
                   saved_recipe, response, db_image_url>>

\* lines 1090-1097 and 1116-1119
JobUpload ==
    /\ job_pc = "upload"
    /\ \/ job_pc' = "update"
       \/ job_pc' = "upload_raised"
    /\ UNCHANGED <<log_outcomes, retry_feedback, producerVars, evaluatorVars,
                   simEnv, request, pc, similar_recipes, loopVars,
                   saved_recipe, response, db_image_url, job_image>>

\* an update that reports completion without writing the row
Mut_JobUpdate ==
    /\ job_pc = "update"
    /\ \/ job_pc' = "done" /\ UNCHANGED db_image_url
       \/ job_pc' = "update_raised" /\ UNCHANGED db_image_url
    /\ UNCHANGED <<log_outcomes, retry_feedback, producerVars, evaluatorVars,
                   simEnv, request, pc, similar_recipes, loopVars,
                   saved_recipe, response, job_image>>

\* lines 1100-1115: update_recipe_image_url raises when no row was updated
JobUpdate ==
    /\ job_pc = "update"
    /\ \/ db_image_url' = "url" /\ job_pc' = "done"
       \/ job_pc' = "update_raised" /\ UNCHANGED db_image_url
    /\ UNCHANGED <<log_outcomes, retry_feedback, producerVars, evaluatorVars,
                   simEnv, request, pc, similar_recipes, loopVars,
                   saved_recipe, response, job_image>>

\* --------------------------------- RecipeService.generate_recipe, lines 346-402
\* what one self.llm.invoke can come back with
LLMOutcomes ==
    {[kind |-> "content", raw |-> raw] : raw \in LLMOutputs}
    \cup {[kind |-> k, raw |-> [serving_size |-> 1, steps |-> <<>>]] :
             k \in {"malformed", "transient", "fatal"}}

\* the clause an outcome lands in: the return of line 367, the except of line
\* 368 (ValidationError), of line 373 (any other parse exception), of line 383
\* (LangChainException, ConnectionError, TimeoutError) or of line 394; content
\* that breaks the schema raises in parse, in one of the two parse clauses
Landings(o) ==
    IF o.kind = "content"
    THEN IF ParseOk(o.raw) THEN {"return"} ELSE {"validation_error", "parse_error"}
    ELSE IF o.kind = "malformed" THEN {"parse_error"}
    ELSE {o.kind}

\* a parse exception is never followed by another invocation
Mut_ParseRetried(landing, att) == FALSE

\* lines 373-379
ParseRetried(landing, att) == landing = "parse_error" /\ att < max_retries - 1

\* lines 383-390
TransientRetried(landing, att) == landing = "transient" /\ att < max_retries - 1

\* a backoff starting at the second step
Mut_wait_time(att) == (att + 2) * backoff_step

\* line 388
wait_time(att) == (att + 1) * backoff_step

\* what the call raises: ValueError from the parse clauses (lines 372, 381),
\* the caught exception itself otherwise (lines 393, 397)
RaisedError(landing) ==
    IF landing \in {"validation_error", "parse_error"} THEN "ValueError" ELSE landing

\* one pass of the loop of lines 350-397 inside the Phase 1 call of main.py
\* lines 697-756; a raise becomes HTTP 500 at lines 752-756
LLMInvoke ==
    /\ pc = "generate"
    /\ attempt < max_retries
    /\ LET parsed == ParseCalorieRange(calorie_range)
       IN /\ target_calories' = parsed.target
          /\ min_calories' = parsed.min
    /\ retry_feedback' = RetryFeedbackSection(NoFeedback)
    /\ draft_calls' = 1
    /\ llm_calls' = llm_calls + 1
    /\ \E o \in LLMOutcomes : \E landing \in Landings(o) :
          /\ prod_log' = Append(prod_log, landing)
          /\ IF landing = "return"
             THEN /\ recipe_output' = [serial |-> 1,
                                       serving_size |-> o.raw.serving_size,
                                       steps |-> o.raw.steps]
                  /\ pc' = "nutrition"
                  /\ UNCHANGED <<attempt, prod_sleeps, prod_error, response>>
             ELSE IF ParseRetried(landing, attempt)
             THEN /\ prod_sleeps' = Append(prod_sleeps, parse_retry_wait)
                  /\ attempt' = attempt + 1
                  /\ UNCHANGED <<pc, recipe_output, prod_error, response>>
             ELSE IF TransientRetried(landing, attempt)
             THEN /\ prod_sleeps' = Append(prod_sleeps, wait_time(attempt))
                  /\ attempt' = attempt + 1
                  /\ UNCHANGED <<pc, recipe_output, prod_error, response>>
             ELSE /\ prod_error' = RaisedError(landing)
                  /\ Failed
                  /\ UNCHANGED <<attempt, prod_sleeps, recipe_output>>
    /\ UNCHANGED <<log_outcomes, evaluatorVars, simEnv, request,
                   similar_recipes, nutrition_data, constraint_attempts,
                   previous_attempt_issues, current_attempt_issues,
                   constraints_met, loop_exit, nutrition_calls, nutrition_log,
                   saved_recipe, db_image_url, job_pc, job_image>>

\* ------------------------- NutritionService.get_recipe_nutrition, lines 125-227
\* what one self.client.post and the reading of its body can come back with
HttpOutcomes ==
    {[kind |-> "nutrients", nd |-> nd] : nd \in NutritionValues}
    \cup {[kind |-> k, nd |-> [calories |-> 0, protein |-> 0]] :
             k \in {"no_nutrients", "429", "402", "error_status", "timeout",
                    "request_error", "exception"}}

\* a 402 handled like any other error status
Mut_EvaluatorPass(o, att) ==
    IF o.kind = "nutrients"
    THEN [sleep |-> 0, continues |-> FALSE, ret |-> "dict"]
    ELSE IF o.kind = "no_nutrients"
    THEN [sleep |-> 0, continues |-> FALSE, ret |-> "None"]
    ELSE IF o.kind = "429"
    THEN [sleep |-> (att + 1) * rate_limit_step, continues |-> TRUE, ret |-> "None"]
    ELSE IF att < nutrition_max_retries - 1
    THEN [sleep |-> retry_wait, continues |-> TRUE, ret |-> "None"]
    ELSE [sleep |-> 0, continues |-> FALSE, ret |-> "None"]

\* one pass of the loop body, lines 166-225: the seconds slept, whether the
\* pass ends in continue, and what it returns if it returns
EvaluatorPass(o, att) ==
    IF o.kind = "nutrients"
    THEN [sleep |-> 0, continues |-> FALSE, ret |-> "dict"]
    ELSE IF o.kind \in {"no_nutrients", "402"}
    THEN [sleep |-> 0, continues |-> FALSE, ret |-> "None"]
    ELSE IF o.kind = "429"
    THEN [sleep |-> (att + 1) * rate_limit_step, continues |-> TRUE, ret |-> "None"]
    ELSE IF att < nutrition_max_retries - 1
    THEN [sleep |-> retry_wait, continues |-> TRUE, ret |-> "None"]
    ELSE [sleep |-> 0, continues |-> FALSE, ret |-> "None"]

\* an exception of the thread call reaching the handler
Mut_OrchNutrition(ret, nd, draft) ==
    IF ret = "dict"
    THEN [failed |-> FALSE,
          data |-> [available |-> TRUE, calories |-> nd.calories,
                    protein |-> nd.protein, of_draft |-> draft.serial]]
    ELSE IF ret = "raised" THEN [failed |-> TRUE, data |-> NoNutrition]
    ELSE [failed |-> FALSE, data |-> NoNutrition]

\* main.py lines 779-793 (and 948-958): "... or {}", and {} in the except
OrchNutrition(ret, nd, draft) ==
    IF ret = "dict"
    THEN [failed |-> FALSE,
          data |-> [available |-> TRUE, calories |-> nd.calories,
                    protein |-> nd.protein, of_draft |-> draft.serial]]
    ELSE [failed |-> FALSE, data |-> NoNutrition]

\* the handler resumes with what the evaluator call gave, lines 779-811
NutritionReturns(ret, nd) ==
    LET r == OrchNutrition(ret, nd, recipe_output)
    IN /\ eval_return' = ret
       /\ IF r.failed
          THEN /\ Failed
               /\ UNCHANGED <<nutrition_data, nutrition_log, nutrition_calls,
                              constraint_attempts, previous_attempt_issues>>
          ELSE /\ nutrition_data' = r.data
               /\ nutrition_log' = Append(nutrition_log, r.data.available)
               /\ nutrition_calls' = nutrition_calls + 1
               /\ constraint_attempts' = 0
               /\ previous_attempt_issues' = <<>>
               /\ pc' = "validate"
               /\ UNCHANGED response

\* lines 147-157: formatting the payload raises before any request is made
EvaluatorFormatRaises ==
    /\ pc = "nutrition"
    /\ http_calls = 0
    /\ NutritionReturns("raised", [calories |-> 0, protein |-> 0])
    /\ UNCHANGED <<nut_attempt, http_calls, nut_sleeps, nut_log>>
    /\ UNCHANGED <<log_outcomes, retry_feedback, producerVars, simEnv, request,
                   similar_recipes, target_calories, min_calories,
                   recipe_output, current_attempt_issues, constraints_met,
                   loop_exit, draft_calls, saved_recipe, db_image_url, job_pc,
                   job_image>>

\* one request of the loop of lines 165-227, inside the call of lines 779-785
EvaluatorRequest ==
    /\ pc = "nutrition"
    /\ nut_attempt < nutrition_max_retries
    /\ http_calls' = http_calls + 1
    /\ \E o \in HttpOutcomes :
          LET p == EvaluatorPass(o, nut_attempt)
          IN /\ nut_log' = Append(nut_log, o.kind)
             /\ nut_sleeps' = IF p.sleep > 0 THEN Append(nut_sleeps, p.sleep)
                              ELSE nut_sleeps
             /\ IF p.continues /\ nut_attempt + 1 < nutrition_max_retries
                THEN /\ nut_attempt' = nut_attempt + 1
                     /\ UNCHANGED <<eval_return, pc, response, nutrition_data,
                                    nutrition_log, nutrition_calls,
                                    constraint_attempts, previous_attempt_issues>>
                ELSE \* a return of the body, or line 227 after the last pass
                     /\ NutritionReturns(p.ret, o.nd)
                     /\ UNCHANGED nut_attempt
    /\ UNCHANGED <<log_outcomes, retry_feedback, producerVars, simEnv, request,
                   similar_recipes, target_calories, min_calories,
                   recipe_output, current_attempt_issues, constraints_met,
                   loop_exit, draft_calls, saved_recipe, db_image_url, job_pc,
                   job_image>>

OrchStart ==
    /\ similar_recipes = <<>>
    /\ target_calories = NoneNum
    /\ min_calories = NoneNum
    /\ recipe_output = NoDraft
    /\ nutrition_data = NoNutrition
    /\ constraint_attempts = 0
    /\ previous_attempt_issues = <<>>
    /\ current_attempt_issues = <<>>
    /\ constraints_met = TRUE
    /\ loop_exit = "none"
    /\ draft_calls = 0
    /\ nutrition_calls = 0
    /\ nutrition_log = <<>>
    /\ saved_recipe = NoRecipe
    /\ response = NoResponse
    /\ db_image_url = "None"
    /\ job_pc = "idle"
    /\ job_image = "None"
    /\ retry_feedback = RetryFeedbackSection(NoFeedback)
    /\ log_outcomes = NoLogs
    /\ attempt = 0
    /\ llm_calls = 0
    /\ prod_sleeps = <<>>
    /\ prod_log = <<>>
    /\ prod_error = "none"
    /\ nut_attempt = 0
    /\ http_calls = 0
    /\ nut_sleeps = <<>>
    /\ nut_log = <<>>
    /\ eval_return = "pending"

\* one generate_recipe request; the handler always passes top_k = 5 and a user
Init ==
    /\ index_ok \in BOOLEAN
    /\ user_present = TRUE
    /\ profile_ok = TRUE
    /\ sim_fault = "none"
    /\ matches = <<[id |-> 1, score |-> 90], [id |-> 2, score |-> 75]>>
    /\ user_saved = {}
    /\ user_liked = {2}
    /\ top_k = OrchestratorTopK
    /\ calorie_range \in Requests
    /\ protein_target_per_serving \in ProteinTargets
    /\ pc = "start"
    /\ OrchStart

Next ==
    \/ GetProfile
    \/ FindSimilar
    \/ GenerateInitial
    \/ NutritionInitial
    \/ Validate
    \/ Regenerate
    \/ NutritionRetry
    \/ Persist
    \/ PostPersist
    \/ ScheduleAndReturn
    \/ JobGenerate
    \/ JobUpload
    \/ JobUpdate

Spec == Init /\ [][Next]_vars

\* the event loop runs a created task: each step of the job, once it can be
\* taken, is taken
FairSpec ==
    /\ Spec
    /\ WF_vars(JobGenerate)
    /\ WF_vars(JobUpload)
    /\ WF_vars(JobUpdate)

\* one find_similar_recipes call, from the call site of line 666
SimInit ==
    /\ SimEnvOK
    /\ matches \in {s \in SeqsUpTo(Match, MaxMatches) : Ranked(s)}
    /\ top_k \in 1..MaxTopK
    /\ calorie_range = [kind |-> "none", lo |-> 0, hi |-> 0]
    /\ protein_target_per_serving = NoneNum
    /\ pc = "similarity"
    /\ OrchStart

SimNext == FindSimilar

SimSpec == SimInit /\ [][SimNext]_vars

\* one request from Phase 1 to the first pass of the constraint loop, with the
\* two adapters run attempt by attempt
AdapterInit ==
    /\ index_ok = TRUE
    /\ user_present = TRUE
    /\ profile_ok = TRUE
    /\ sim_fault = "none"
    /\ matches = <<>>
    /\ user_saved = {}
    /\ user_liked = {}
    /\ top_k = OrchestratorTopK
    /\ calorie_range \in Requests
    /\ protein_target_per_serving \in ProteinTargets
    /\ pc = "generate"
    /\ OrchStart

AdapterNext ==
    \/ LLMInvoke
    \/ EvaluatorFormatRaises
    \/ EvaluatorRequest
    \/ Validate

AdapterSpec == AdapterInit /\ [][AdapterNext]_vars

\* ===================================================================== claims
AfterLoop == loop_exit # "none"

\* the issues and constraints_met in the state are those of validating the
\* draft and nutrition in the state
JustValidated ==
    \/ pc = "regenerate"
    \/ loop_exit \in {"satisfied", "exhausted", "regen_failed"}

AllNutritionEmpty == \A i \in DOMAIN nutrition_log : ~nutrition_log[i]

IsCalorieIssue(i) ==
    i.kind \in {"nutrition_failed", "calories_too_low", "calories_too_high"}
IsProteinIssue(i) == i.kind \in {"protein_too_low", "protein_too_high"}

\* C1: in one run the Draft Producer is called at most 3 times and the
\* attempt counter never exceeds 2.
C1_AtMostThreeDraftCalls ==
    /\ draft_calls <= 3
    /\ constraint_attempts <= 2

C1_Witness ==
    /\ pc = "responded"
    /\ loop_exit = "exhausted"
    /\ draft_calls = 3
    /\ constraint_attempts = 2

\* C2 as stated: with a calorie constraint and every nutrition call empty,
\* the loop ends after 3 draft calls and 3 nutrition calls, as EXHAUSTED.
C2_AllEmptyExhausted ==
    (HasCalorieConstraint(target_calories) /\ AllNutritionEmpty /\ AfterLoop)
        => /\ draft_calls = 3
           /\ nutrition_calls = 3
           /\ loop_exit = "exhausted"

\* C2 amended: with a calorie constraint and every nutrition call empty, no
\* more than 3 draft calls and 3 nutrition calls are made; the loop ends
\* after exactly 3 of each, as EXHAUSTED, unless a regeneration call raised,
\* and then it ends at that call; either way the run is past the loop, at
\* persistence.
C2_AllEmptyExhaustedUnlessRegenRaises ==
    (HasCalorieConstraint(target_calories) /\ AllNutritionEmpty)
        => /\ draft_calls <= 3
           /\ nutrition_calls <= 3
           /\ AfterLoop =>
                /\ loop_exit \in {"exhausted", "regen_failed"}
                /\ pc \in {"persist", "logging", "schedule", "responded", "failed"}
                /\ loop_exit = "exhausted" =>
                      (draft_calls = 3 /\ nutrition_calls = 3)
                /\ loop_exit = "regen_failed" =>
                      (draft_calls = nutrition_calls + 1 /\ nutrition_calls < 3)

C2_Witness ==
    /\ HasCalorieConstraint(target_calories)
    /\ AllNutritionEmpty
    /\ loop_exit = "exhausted"
    /\ nutrition_calls = 3
    /\ pc = "logging"

\* C3: without a calorie range and without a protein target there is exactly
\* one draft call and one nutrition call, and that first draft is accepted
\* whatever the nutrition result.
C3_NoConstraintsSingleCall ==
    (calorie_range.kind = "none" /\ protein_target_per_serving = NoneNum)
        => /\ draft_calls <= 1
           /\ nutrition_calls <= 1
           /\ pc # "regenerate"
           /\ AfterLoop =>
                 /\ draft_calls = 1
                 /\ nutrition_calls = 1
                 /\ loop_exit = "no_constraints"
           /\ saved_recipe # NoRecipe => saved_recipe.draft.serial = 1

C3_Witness ==
    /\ calorie_range.kind = "none"
    /\ protein_target_per_serving = NoneNum
    /\ pc = "responded"
    /\ ~nutrition_data.available
    /\ saved_recipe.draft.serial = 1

\* C4: for a user with saved and liked recipes, no saved candidate stands
\* after a liked or unmarked one in the returned list, and no liked candidate
\* after an unmarked one.
C4_SavedThenLikedThenOthers ==
    (pc = "generate" /\ user_present /\ profile_ok
     /\ user_saved # {} /\ user_liked # {})
        => \A i, j \in DOMAIN similar_recipes :
              i < j => AffinityRank(similar_recipes[i]) <= AffinityRank(similar_recipes[j])

C6_AtMostTopK == Len(similar_recipes) <= top_k

C6_Witness ==
    /\ pc = "generate"
    /\ Len(similar_recipes) = top_k
    /\ Len(FilterMatches(matches, {}, {})) > top_k

SimHardFailure ==
    \/ ~index_ok
    \/ matches = <<>>
    \/ sim_fault \in {"embed", "query2"}

ProfileLookupFails == user_present /\ ~profile_ok

\* C7 as stated: an empty list and no exception when the index is
\* unavailable, returns no matches, the embedding fails, the profile lookup
\* fails or both query attempts fail; generate_recipe does not fail.
C7_EmptyOnAnyFailure ==
    pc # "similarity"
        => /\ pc # "failed"
           /\ (SimHardFailure \/ ProfileLookupFails) => similar_recipes = <<>>

\* C7 amended: no exception in any case and generate_recipe does not fail;
\* an empty list when the index is unavailable, returns no matches, the
\* embedding fails or both query attempts fail; when only the profile lookup
\* fails the search goes on without affinity marks.
C7_EmptyOnHardFailure ==
    pc # "similarity"
        => /\ pc = "generate"
           /\ response.status # "error500"
           /\ SimHardFailure => similar_recipes = <<>>
           /\ ProfileLookupFails =>
                 \A i \in DOMAIN similar_recipes :
                    /\ ~similar_recipes[i].is_user_saved
                    /\ ~similar_recipes[i].is_user_liked

C7_Witness ==
    /\ pc = "generate"
    /\ index_ok
    /\ sim_fault = "query2"
    /\ \E j \in DOMAIN matches : matches[j].score = 90 /\ matches[j].id # NoId
    /\ similar_recipes = <<>>

CalorieIssuesFound == SelectSeq(current_attempt_issues, IsCalorieIssue)
ProteinIssuesFound == SelectSeq(current_attempt_issues, IsProteinIssue)

\* C8: with a calorie range and calories available, calories d >= 100 above
\* max give exactly one calorie issue, "too high" by d; calories more than
\* 100 below min give exactly one calorie issue, "too low", asking for an
\* increase of at least min - actual.
C8_CalorieIssueKinds ==
    (JustValidated /\ HasCalorieConstraint(target_calories) /\ nutrition_data.available)
        => LET actual == nutrition_data.calories
               found == CalorieIssuesFound
           IN /\ actual - target_calories >= 100 =>
                    /\ Len(found) = 1
                    /\ found[1].kind = "calories_too_high"
                    /\ found[1].amount = actual - target_calories
              /\ min_calories - actual > 100 =>
                    /\ Len(found) = 1
                    /\ found[1].kind = "calories_too_low"
                    /\ found[1].amount >= min_calories - actual

C8_Witness ==
    /\ pc = "regenerate"
    /\ min_calories = 1800
    /\ target_calories = 2200
    /\ nutrition_data.available
    /\ nutrition_data.calories = 2350
    /\ CalorieIssuesFound = <<Issue("calories_too_high", "target", 2350, 150, 1)>>

\* C9: with a protein target and protein available, the check compares
\* protein / serving_size with the target and passes exactly when they
\* differ by at most 10 g.
C9_ProteinWithinTolerance ==
    (JustValidated /\ HasProteinConstraint(protein_target_per_serving)
     /\ nutrition_data.available /\ recipe_output.serving_size >= 1)
        => LET ss == recipe_output.serving_size
               within == Abs(nutrition_data.protein - protein_target_per_serving * ss)
                            <= 10 * ss
           IN /\ within <=> (ProteinIssuesFound = <<>>)
              /\ ~HasCalorieConstraint(target_calories) => (within <=> constraints_met)

C9_Witness ==
    /\ loop_exit = "satisfied"
    /\ ~HasCalorieConstraint(target_calories)
    /\ protein_target_per_serving = 30
    /\ recipe_output.serving_size = 2
    /\ nutrition_data.available
    /\ nutrition_data.protein = 50
    /\ constraints_met

\* C10: the response of a successful run is success, the persisted record
\* and a null image; it is returned before the job has run a step, and no
\* step of the job, succeeding or failing, changes it.
C10_ResponseFixedBeforeJob ==
    /\ [](pc = "responded" =>
            /\ response.status = "success"
            /\ response.recipe = saved_recipe
            /\ response.recipe.image_url = "None"
            /\ response.image_base64 = "None")
    /\ [](job_pc # "idle" => pc = "responded")
    /\ [][job_pc # "idle" => response' = response]_vars

C10_Witness ==
    /\ pc = "responded"
    /\ job_pc = "update_raised"
    /\ response.status = "success"

\* C11: every draft handed to persistence has step numbers 1, 2, ... strictly
\* increasing from 1, and every step has one of the three step types.
C11_StepsNumberedAndTyped ==
    saved_recipe # NoRecipe
        => LET steps == saved_recipe.draft.steps
           IN /\ \A i \in DOMAIN steps : steps[i].step_type \in {"active", "passive", "wait"}
              /\ steps # <<>> => steps[1].step_number = 1
              /\ \A i \in 1..(Len(steps) - 1) :
                    steps[i].step_number < steps[i + 1].step_number


\* C12: the image job starts only from the handler's create_task step, with
\* the persisted record in hand; once started it is never started again; a
\* run without a persisted record, a failed run included, has no job.
C12_JobAfterPersistAtMostOnce ==
    /\ [](job_pc # "idle" => saved_recipe # NoRecipe /\ saved_recipe.id # 0)
    /\ [](pc = "failed" => job_pc = "idle")
    /\ [][job_pc' = "scheduled" /\ job_pc' # job_pc
            => job_pc = "idle" /\ pc = "schedule" /\ saved_recipe # NoRecipe]_vars
    /\ [][job_pc # "idle" /\ job_pc' # job_pc
            => job_pc' \notin {"idle", "scheduled"}]_vars

C12_Witness ==
    /\ job_pc = "scheduled"
    /\ saved_recipe # NoRecipe
    /\ loop_exit = "regen_failed"


ParseFailure(landing) == landing \in {"validation_error", "parse_error"}

AllTransient == \A i \in DOMAIN prod_log : prod_log[i] = "transient"

C15_NutritionFailureNeverRaises ==
    /\ [](eval_return \in {"None", "raised"}
            => /\ nutrition_data = NoNutrition
               /\ pc \in {"validate", "regenerate", "persist"})
    /\ [](eval_return = "dict" => nutrition_data.available)
    /\ [][pc = "nutrition" => pc' \in {"nutrition", "validate"}]_vars
    /\ [](http_calls <= nutrition_max_retries)

C15_Witness ==
    /\ nut_log = <<"429", "429">>
    /\ nut_sleeps = <<2, 4>>
    /\ eval_return = "None"
    /\ nutrition_data = NoNutrition
    /\ pc = "regenerate"


\* C16: the step in which a regeneration call raises leaves the loop for
\* persistence with the draft, the nutrition and the response untouched;
\* from then on no draft or nutrition call is made; the draft in hand, the
\* one persisted and the one returned with a success response is that of the
\* last generation that succeeded; only create_recipe failing can still turn
\* the run into an error.
C16_RegenRaiseKeepsLastGoodDraft ==
    /\ [][loop_exit = "none" /\ loop_exit' = "regen_failed"
            => /\ pc' = "persist"
               /\ recipe_output' = recipe_output
               /\ nutrition_data' = nutrition_data
               /\ response' = response]_vars
    /\ [][loop_exit = "regen_failed"
            => /\ draft_calls' = draft_calls
               /\ nutrition_calls' = nutrition_calls
               /\ recipe_output' = recipe_output
               /\ (pc' = "failed" => pc \in {"persist", "failed"})]_vars
    /\ [](loop_exit = "regen_failed"
            => /\ recipe_output.serial = draft_calls - 1
               /\ nutrition_calls = draft_calls - 1
               /\ recipe_output.serial >= 1
               /\ saved_recipe # NoRecipe => saved_recipe.draft = recipe_output
               /\ pc = "responded"
                     => /\ response.status = "success"
                        /\ response.recipe.draft = recipe_output)

C16_Witness ==
    /\ loop_exit = "regen_failed"
    /\ draft_calls = 3
    /\ pc = "responded"
    /\ response.status = "success"
    /\ response.recipe.draft.serial = 2

\* C17: when the loop is left because the third validation failed, the draft
\* in hand is the third one, with the nutrition obtained for it; that draft
\* and that nutrition are what is persisted and returned with a success
\* response; leaving the loop this way does not change the response, and
\* only create_recipe failing can still turn the run into an error.
C17_ExhaustedAcceptsThirdDraft ==
    /\ [](loop_exit = "exhausted"
            => /\ draft_calls = max_constraint_attempts
               /\ recipe_output.serial = max_constraint_attempts
               /\ ~constraints_met
               /\ nutrition_data.available
                     => nutrition_data.of_draft = max_constraint_attempts
               /\ saved_recipe # NoRecipe
                     => /\ saved_recipe.draft = recipe_output
                        /\ saved_recipe.nutrition = nutrition_data
               /\ pc = "responded"
                     => /\ response.status = "success"
                        /\ response.recipe.draft = recipe_output
                        /\ response.recipe.nutrition = nutrition_data)
    /\ [][loop_exit = "none" /\ loop_exit' = "exhausted"
            => pc' = "persist" /\ response' = response]_vars
    /\ [][loop_exit = "exhausted" /\ pc' = "failed"
            => pc \in {"persist", "failed"}]_vars

C17_Witness ==
    /\ loop_exit = "exhausted"
    /\ pc = "responded"
    /\ response.status = "success"
    /\ response.recipe.draft.serial = 3
    /\ response.recipe.nutrition.available


\* the states in which generate_image_background has returned
JobFailedEnds == {"no_image", "generate_raised", "upload_raised", "update_raised"}
JobEnds == JobFailedEnds \cup {"done"}

\* C18 as stated: after a successful run the persisted row eventually has
\* its image_url set.
C18_ImageEventuallySet == (pc = "responded") ~> (db_image_url = "url")

\* C18 amended: after a successful run the job eventually returns; it has
\* set image_url exactly when generation, upload and update all succeeded;
\* when a stage failed the job never runs again and image_url stays null;
\* no step of the job touches the persisted record's other fields.
C18_JobEndsImageSetOnlyOnSuccess ==
    /\ (pc = "responded") ~> (job_pc \in JobEnds)
    /\ [](job_pc = "done" <=> db_image_url = "url")
    /\ [](job_pc \in JobFailedEnds => db_image_url = "None")
    /\ [][(job_pc \in JobEnds)
            => (job_pc' = job_pc /\ db_image_url' = db_image_url)]_vars
    /\ [][job_pc # "idle" => saved_recipe' = saved_recipe]_vars

C18_Witness ==
    /\ pc = "responded"
    /\ job_pc = "done"
    /\ job_image = "image"
    /\ db_image_url = "url"


\* a user without saved or liked recipes
NoAffinity == [saved |-> {}, liked |-> {}]

\* the candidates that pass the filter of lines 139-174, before sort and slice
Survivors(sets) == FilterMatches(QueryIndex(matches, top_k), sets.saved, sets.liked)

Ids(rs) == {rs[i].id : i \in DOMAIN rs}

\* C19 as stated: the recipes returned for a user are the recipes returned
\* for the same query, index and top_k to a user with nothing saved or liked.
C19_SameSetWithOrWithoutAffinity ==
    pc = "generate"
        => Ids(similar_recipes) = Ids(FindSimilarWith(NoAffinity).results)

\* C19 amended: the candidates that pass the threshold are the same with and
\* without affinity, the returned list has the same length and only holds
\* candidates that passed; when no more than top_k pass, the returned
\* recipes are the same.
C19_SameSurvivorsSameSetWithinTopK ==
    pc = "generate"
        => LET plain == FindSimilarWith(NoAffinity).results
               passed == Survivors(NoAffinity)
           IN /\ Ids(Survivors(ProfileSets)) = Ids(passed)
              /\ Len(Survivors(ProfileSets)) = Len(passed)
              /\ Len(similar_recipes) = Len(plain)
              /\ Ids(similar_recipes) \subseteq Ids(passed)
              /\ Len(passed) <= top_k => Ids(similar_recipes) = Ids(plain)

C19_Witness ==
    /\ pc = "generate"
    /\ user_saved = {1}
    /\ user_present /\ profile_ok
    /\ top_k = 2
    /\ Len(Survivors(NoAffinity)) = 2
    /\ Ids(similar_recipes) = {1, 2}
    /\ similar_recipes # FindSimilarWith(NoAffinity).results


IssuesNow ==
    LET cal == IF HasCalorieConstraint(target_calories)
               THEN CalorieIssues(nutrition_data, min_calories, target_calories)
               ELSE <<>>
        prot == IF HasProteinConstraint(protein_target_per_serving)
                   /\ nutrition_data.available
                THEN ProteinIssues(nutrition_data.protein, recipe_output.serving_size,
                                   protein_target_per_serving)
                ELSE <<>>
    IN cal \o prot

\* C21: the first draft call gets no feedback; a regeneration call is made
\* only with the nutrition call of the validated draft done, and the feedback
\* in its prompt is, issue for issue and in order, the non-empty list the
\* validation just before it produced for the draft and nutrition in hand.
C21_FeedbackIsLastValidationIssues ==
    /\ [](draft_calls <= 1 => ~retry_feedback.present)
    /\ [](pc = "regenerate" => current_attempt_issues = IssuesNow)
    /\ [][pc = "regenerate" /\ draft_calls' = draft_calls + 1
            => /\ current_attempt_issues # <<>>
               /\ ~constraints_met
               /\ nutrition_calls = draft_calls
               /\ nutrition_data.available
                     => nutrition_data.of_draft = recipe_output.serial
               /\ retry_feedback'.present
               /\ retry_feedback'.lines =
                     [i \in DOMAIN current_attempt_issues
                         |-> <<"- ", current_attempt_issues[i]>>]]_vars

C21_Witness ==
    /\ pc = "renutrition"
    /\ draft_calls = 3
    /\ retry_feedback.present
    /\ Len(retry_feedback.lines) = 2
    /\ retry_feedback.lines[2][2].kind = "protein_too_high"


\* C22: one get_recipe_nutrition call makes at most 2 requests; a 402 is the
\* last request of the call, which returns None; a 429 on the first request
\* is followed by a 2 s sleep and a second request, and after a 429 on the
\* second request the call returns None.
C22_AtMostTwoRequests ==
    /\ http_calls <= 2
    /\ Len(nut_log) = http_calls
    /\ \A i \in DOMAIN nut_log :
          /\ nut_log[i] = "402"
                => /\ i = Len(nut_log)
                   /\ eval_return = "None"
          /\ nut_log[i] = "429"
                => IF i = 1
                   THEN /\ nut_sleeps # <<>>
                        /\ nut_sleeps[1] = 2
                        /\ nut_attempt = 1
                        /\ Len(nut_log) = 1 => (pc = "nutrition" /\ eval_return = "pending")
                   ELSE eval_return = "None"

C22_Witness ==
    /\ nut_log = <<"429", "nutrients">>
    /\ http_calls = 2
    /\ eval_return = "dict"
    /\ nutrition_data.available


\* an exception was raised inside the handler: one that ended the request,
\* or the raise of a regeneration call
ExceptionRaised == pc = "failed" \/ loop_exit = "regen_failed"

\* C23 as stated: a run in which an exception was raised in the handler
\* answers with the failure response and never with success.
C23_AnyExceptionFails ==
    (ExceptionRaised /\ response # NoResponse) => response = ErrorResponse

\* C23 amended: an exception that reaches the handler's outer except ends
\* the request there with the one failure response, after which nothing
\* more happens; a response once given is never replaced; success and
\* failure exclude each other; an exception caught inside (the raise of a
\* regeneration call) does not fail the run; when the first draft call
\* raises there is no nutrition call, no persisted record and no image job.
C23_EscapedExceptionFailsOnce ==
    /\ [](pc = "failed" <=> response = ErrorResponse)
    /\ [](response.status = "success" <=> pc = "responded")
    /\ [][pc # "failed"]_vars
    /\ [][response # NoResponse => response' = response]_vars
    /\ [](pc = "failed" => job_pc = "idle")
    /\ []((pc = "failed" /\ recipe_output = NoDraft /\ draft_calls = 1)
            => /\ nutrition_calls = 0
               /\ saved_recipe = NoRecipe
               /\ db_image_url = "None"
               /\ job_pc = "idle")
    /\ []((loop_exit = "regen_failed" /\ response # NoResponse /\ saved_recipe # NoRecipe)
            => response.status = "success")

C23_Witness ==
    /\ pc = "failed"
    /\ response = ErrorResponse
    /\ draft_calls = 1
    /\ recipe_output = NoDraft
    /\ nutrition_calls = 0


\* the order of the stages of generate_image_background
JobSteps ==
    {<<"idle", "scheduled">>,
     <<"scheduled", "upload">>, <<"scheduled", "no_image">>, <<"scheduled", "generate_raised">>,
     <<"upload", "update">>, <<"upload", "upload_raised">>,
     <<"update", "done">>, <<"update", "update_raised">>}

\* C24: the job moves generate, upload, update and never back, so each stage
\* runs at most once; the upload is reached only with an image, the update
\* only from a returned upload, the row is written only by the update; a
\* stage that fails ends the job and touches neither the handler, nor the
\* response, nor the persisted record.
C24_JobStagesInOrderOnce ==
    /\ [][job_pc' # job_pc => <<job_pc, job_pc'>> \in JobSteps]_vars
    /\ [](job_pc \in {"upload", "update", "done", "upload_raised", "update_raised"}
            => job_image = "image")
    /\ [](job_pc \in {"no_image", "generate_raised"} => job_image = "None")
    /\ [][(job_pc # "idle" /\ db_image_url' # db_image_url)
            => (job_pc = "update" /\ job_pc' = "done")]_vars
    /\ [][(job_pc' \in JobFailedEnds)
            => /\ pc' = pc
               /\ response' = response
               /\ saved_recipe' = saved_recipe
               /\ db_image_url' = db_image_url]_vars
    /\ [][(job_pc \in JobEnds) => job_pc' = job_pc]_vars

C24_Witness ==
    /\ job_pc = "upload_raised"
    /\ job_image = "image"
    /\ db_image_url = "None"
    /\ response.status = "success"


\* C25: a success response is given only with the record create_recipe
\* returned; once create_recipe has returned, the run never fails: whatever
\* the outcomes of the analytics row, the activity log and the user-action
\* log, the handler goes on to schedule the image job and to answer success.
C25_SuccessIffPersisted ==
    /\ [](response.status = "success"
            => (saved_recipe # NoRecipe /\ response.recipe = saved_recipe))
    /\ [](saved_recipe # NoRecipe => (pc # "failed" /\ response # ErrorResponse))
    /\ [](saved_recipe = NoRecipe => response.status # "success")
    /\ [][pc = "logging"
            => (pc' = "schedule" /\ response' = response /\ saved_recipe' = saved_recipe)]_vars
    /\ [][pc = "schedule"
            => (pc' = "responded" /\ job_pc' = "scheduled"
                /\ response'.status = "success")]_vars

C25_Witness ==
    /\ pc = "responded"
    /\ log_outcomes = [analytics |-> "error", activity |-> "error", action |-> "error"]
    /\ response.status = "success"
    /\ job_pc = "scheduled"


\* calories inside the requested range but 100 or more below its upper bound
InsideButLow ==
    /\ nutrition_data.available
    /\ min_calories <= nutrition_data.calories
    /\ nutrition_data.calories <= target_calories - 100

C27_NutritionOfPersistedDraft ==
    /\ pc = "persist"
          => /\ loop_exit \in {"no_constraints", "satisfied", "exhausted", "regen_failed"}
             /\ nutrition_data.available
                   => nutrition_data.of_draft = recipe_output.serial
    /\ saved_recipe # NoRecipe
          => /\ saved_recipe.draft = recipe_output
             /\ saved_recipe.nutrition = nutrition_data
             /\ saved_recipe.nutrition.available
                   => saved_recipe.nutrition.of_draft = saved_recipe.draft.serial

C27_Witness ==
    /\ loop_exit = "regen_failed"
    /\ draft_calls = 3
    /\ saved_recipe # NoRecipe
    /\ saved_recipe.draft.serial = 2
    /\ saved_recipe.nutrition.available
    /\ saved_recipe.nutrition.of_draft = 2


\* the request sets a protein target and no calorie constraint
ProteinOnly ==
    /\ ParseCalorieRange(calorie_range).target = NoneNum
    /\ protein_target_per_serving # NoneNum

\* C28: with a protein target only and the first nutrition call without a
\* profile, the validation runs, records no issue and leaves the loop as
\* satisfied with the first draft, no regeneration call made; an issue
\* "nutrition failed" only ever comes with a calorie constraint.
C28_ProteinOnlyUnavailableSatisfied ==
    /\ (ProteinOnly /\ nutrition_log # <<>> /\ ~nutrition_log[1])
          => /\ draft_calls = 1
             /\ nutrition_calls = 1
             /\ pc # "regenerate"
             /\ AfterLoop
                   => /\ loop_exit = "satisfied"
                      /\ current_attempt_issues = <<>>
                      /\ constraints_met
             /\ saved_recipe # NoRecipe => saved_recipe.draft.serial = 1
    /\ \A i \in DOMAIN current_attempt_issues :
          current_attempt_issues[i].kind = "nutrition_failed"
              => HasCalorieConstraint(target_calories)

C28_Witness ==
    /\ ProteinOnly
    /\ calorie_range.kind = "none"
    /\ nutrition_log = <<FALSE>>
    /\ loop_exit = "satisfied"
    /\ pc = "responded"
    /\ response.recipe.draft.serial = 1


\* a calorie_range that was supplied but is no min-max with max > min
Malformed ==
    \/ calorie_range.kind = "text"
    \/ calorie_range.kind = "range" /\ calorie_range.hi <= calorie_range.lo

NoRange == [kind |-> "none", lo |-> 0, hi |-> 0]

\* C29: a malformed calorie_range parses to what an absent one parses to and
\* never sets a constraint; with no protein target there is one draft call,
\* one nutrition call, no validation issue, no regeneration, the first draft
\* accepted whatever its nutrition; the run fails only where a run without
\* constraints fails too: before a draft exists, or at create_recipe.
C29_MalformedRangeNoConstraint ==
    Malformed
        => /\ ParseCalorieRange(calorie_range) = ParseCalorieRange(NoRange)
           /\ target_calories = NoneNum
           /\ min_calories = NoneNum
           /\ protein_target_per_serving = NoneNum
                => /\ draft_calls <= 1
                   /\ nutrition_calls <= 1
                   /\ pc \notin {"regenerate", "renutrition"}
                   /\ current_attempt_issues = <<>>
                   /\ AfterLoop
                         => /\ loop_exit = "no_constraints"
                            /\ draft_calls = 1
                            /\ nutrition_calls = 1
                   /\ saved_recipe # NoRecipe => saved_recipe.draft.serial = 1
                   /\ pc = "failed"
                         => recipe_output = NoDraft \/ loop_exit = "no_constraints"

C29_Witness ==
    /\ calorie_range = [kind |-> "range", lo |-> 2200, hi |-> 1800]
    /\ protein_target_per_serving = NoneNum
    /\ pc = "responded"
    /\ nutrition_data.available
    /\ nutrition_data.calories = 2350
    /\ response.status = "success"
    /\ response.recipe.draft.serial = 1


\* C30: in a producer call and in an evaluator call that has ended, every
\* sleep was followed by another attempt: there are fewer sleeps than
\* attempts made.
C30_SleepOnlyBeforeRetry ==
    /\ (llm_calls > 0 /\ pc # "generate") => Len(prod_sleeps) < llm_calls
    /\ (http_calls > 0 /\ eval_return # "pending") => Len(nut_sleeps) < http_calls

====
